---- MODULE Spec2Model ----
(***************************************************************************)
(* A model of the request-serving core of the air framework:               *)
(*   - server.ServeHTTP (src/server.go): the per-request lifecycle, run    *)
(*     concurrently by several goroutines over two sync.Pools;             *)
(*   - Response and responseWriter (src/unnamed/part_000): the response    *)
(*     operations a stage can invoke;                                      *)
(*   - server.serve / server.allowedHost (src/server.go): the listener     *)
(*     topology and the host whitelist gates.                              *)
(*                                                                         *)
(* Library calls are modelled by their nominal contract: http.ServeContent *)
(* commits the header through the ResponseWriter it is given with status   *)
(* 200 and copies the content through it; the header fields ServeContent   *)
(* derives by itself are not tracked.  The first WriteHeader that reaches  *)
(* the underlying net/http writer fixes the status on the wire.           *)
(***************************************************************************)
EXTENDS Integers, Sequences, FiniteSets, TLC

\* ------------------------------------------------------------------ bounds
NWorkers == 2       \* goroutines running ServeHTTP concurrently
NPregases == 1      \* len(s.a.Pregases)
NGases == 2         \* len(s.a.Gases)
MaxOps == 2         \* response operations one lifecycle performs
MaxBody == 1        \* bytes of one body write
MaxParams == 1      \* route parameters of the matched route
MaxLen == 3         \* bytes of a payload given to the minifier
NConns == 2         \* connections of the server that is shut down
MaxTime == 3        \* longest handler duration and longest timeout
NLoggers == 2       \* goroutines calling logger.log concurrently
MaxRecords == 2     \* records written to the logger output

\* ------------------------------------------------------- program constants
StatusOK == 200
StatusNoContent == 204
StatusSwitchingProtocols == 101
StatusMultipleChoices == 300
StatusFound == 302
StatusBadRequest == 400
StatusInternalServerError == 500
DefaultContentLength == -1
StatusMovedPermanently == 301
LoggerLevelDebug == 0
LoggerLevelInfo == 1
LoggerLevelWarn == 2

Workers == 1 .. NWorkers
\* sync.Pool.New makes a fresh object on a miss; no more objects than
\* goroutines are ever needed, so the identities are 1 .. NWorkers.
ObjIds == 1 .. NWorkers
Nil == 0

\* Statuses a stage assigns to Response.Status or passes to WriteHeader.
StatusInputs == {StatusOK, 404}
\* Statuses the websocket.Upgrader reports to its Error callback.
UpgradeErrorStatuses == {StatusBadRequest}
HeaderKeys == {"Content-Type", "Content-Length"}

VARIABLES
    requestPool,            \* s.requestPool: the Requests lying in the pool
    responsePool,           \* s.responsePool
    routeParamValuesPool,   \* s.a.router.routeParamValuesPool
    reqs,                   \* the fields of every Request object
    ress,                   \* the fields of every Response object
    pc,                     \* where each goroutine is in ServeHTTP
    req, res,               \* the locals req and res of each goroutine
    cur,                    \* depth of the chain element now running
    dir,                    \* "down": entering, "up": returning
    err,                    \* the error travelling up the chain
    di,                     \* the index i of the deferred-function loop
    ops,                    \* response operations done in this lifecycle
    hdr,                    \* rw.Header(): the response header collection
    rhdr,                   \* r.Header: the header of the inbound request
    sent,                   \* status the underlying writer sent (0: none)
    wrote,                  \* bytes the underlying writer accepted
    log,                    \* chain elements entered, in order
    ran,                    \* deferred functions run, in order
    registered,             \* deferred functions registered, in order
    cfg,                    \* the configuration s.a of this run
    servePc,                \* where serve() is
    tlsConfig,              \* s.server.TLSConfig: which GetCertificate is set
    primary,                \* how s.server listens, and on which port
    secondary,              \* the handler of the listener hs on :80, if started
    conn,                   \* what became of the last connection
    blob,                   \* one call of Minify or WriteBlob and its result
    now,                    \* the clock
    conns,                  \* the connections of s.server and their handlers
    shut,                   \* the call of shutdown(timeout), if any
    loggerCfg,              \* DebugMode and LoggerLowestLevel of l.a
    lpc,                    \* where each goroutine is in logger.log
    ll,                     \* the level of the call each goroutine is making
    mutex,                  \* l.mutex: the goroutine holding it, or Nil
    output                  \* what l.a.LoggerOutput has received, in order

lifeVars == <<requestPool, responsePool, routeParamValuesPool, reqs, ress, pc,
              req, res, cur, dir, err, di, ops, hdr, rhdr, sent, wrote, log, ran,
              registered>>
serveVars == <<cfg, servePc, tlsConfig, primary, secondary, conn>>
minifyVars == <<blob>>
shutdownVars == <<now, conns, shut>>
loggerVars == <<loggerCfg, lpc, ll, mutex, output>>
auxVars == <<minifyVars, shutdownVars, loggerVars>>
vars == <<lifeVars, serveVars, auxVars>>

\* ------------------------------------------------------------ the chain
Pregases == [i \in 1 .. NPregases |-> <<"pregas", i>>]
Gases == [i \in 1 .. NGases |-> <<"gas", i>>]
RouteStep == <<"route", 0>>
WrapStep == <<"wrap", 0>>
MatchedHandler == <<"handler", 0>>

\* The loop run upwards: stack[0] ends innermost.
ChainStackReversed(stack, i, h) == [j \in 1 .. i |-> stack[i - j + 1]] \o h

\* for i := len(stack) - 1; i >= 0; i-- { h = stack[i](h) }: every element
\* wraps what was built so far, so stack[0] ends outermost.
RECURSIVE ChainStack(_, _, _)
ChainStack(stack, i, h) ==
    IF i < 1 THEN h ELSE ChainStack(stack, i - 1, <<stack[i]>> \o h)

\* The chain ServeHTTP builds, outermost element first: the pregases, the
\* closure that resolves the route, the gases, the closure around the
\* matched handler, the matched handler.
Chain ==
    ChainStack(Pregases, Len(Pregases),
        <<RouteStep>> \o ChainStack(Gases, Len(Gases), <<WrapStep, MatchedHandler>>))

IsStage(e) == e[1] \in {"pregas", "gas", "handler"}

\* ------------------------------------------------- the response operations
\* A response operation acts on c = [r |-> the Response's fields,
\* h |-> the header collection, s |-> the status on the wire, b |-> the
\* number of body bytes the underlying writer has accepted].

\* The underlying net/http writer: the first WriteHeader fixes the status.
UnderlyingWriteHeader(c, status) ==
    [c EXCEPT !.s = IF c.s = 0 THEN status ELSE c.s]

\* responseWriter.WriteHeader
RWWriteHeader(c, status) ==
    IF c.r.Written THEN c
    ELSE LET st == IF status = StatusOK /\ status # c.r.Status
                   THEN c.r.Status ELSE status
             c1 == UnderlyingWriteHeader(c, st)
         IN [c1 EXCEPT !.r.Status = st, !.r.Written = TRUE]

\* responseWriter.Write of n bytes; ok: the underlying write succeeds.
RWWrite(c, n, ok) ==
    LET c1 == IF ~c.r.Written THEN RWWriteHeader(c, c.r.Status) ELSE c
    IN IF ok THEN [c1 EXCEPT !.r.ContentLength = @ + n, !.b = @ + n] ELSE c1

\* http.ServeContent(r.hrw, ...): header commit with 200, then the content.
ServeContent(c, n, ok) ==
    LET c1 == RWWriteHeader(c, StatusOK)
    IN IF n > 0 THEN RWWrite(c1, n, ok) ELSE c1

\* Response.Write with n content bytes (nil content: n = 0).
ResponseWrite(c, n, ok) ==
    IF c.r.Written
    THEN (IF n > 0 THEN RWWrite(c, n, ok) ELSE c)
    ELSE ServeContent(c, n, ok)

\* Response.Redirect: http.Redirect sets the header and writes a short body.
ResponseRedirect(c, n) ==
    LET st == IF c.r.Status < StatusMultipleChoices \/ c.r.Status >= StatusBadRequest
              THEN StatusFound ELSE c.r.Status
        c1 == [c EXCEPT !.r.Status = st]
        c2 == RWWriteHeader(c1, st)
    IN IF n > 0 THEN RWWrite(c2, n, TRUE) ELSE c2

\* An Error callback that records the status and leaves Written alone.
ResponseWebSocketNoReset(c, outcome, status) ==
    LET c1 == [c EXCEPT !.r.Status = StatusSwitchingProtocols, !.r.Written = TRUE]
    IN CASE outcome = "rejected" -> [c1 EXCEPT !.r.Status = status]
         [] outcome = "ok" ->
              [c1 EXCEPT !.s = IF c.s = 0 THEN StatusSwitchingProtocols ELSE c.s]
         [] OTHER -> c1

\* Response.WebSocket.  outcome "ok": the upgrade succeeds and the
\* connection is hijacked; "rejected": the Upgrader refuses the handshake
\* and calls its Error callback with status; "failed": the upgrade fails
\* after the hijack, without the callback.
ResponseWebSocket(c, outcome, status) ==
    LET c1 == [c EXCEPT !.r.Status = StatusSwitchingProtocols, !.r.Written = TRUE]
    IN CASE outcome = "rejected" ->
              [c1 EXCEPT !.r.Status = status, !.r.Written = FALSE]
         [] outcome = "ok" ->
              [c1 EXCEPT !.s = IF c.s = 0 THEN StatusSwitchingProtocols ELSE c.s]
         [] OTHER -> c1

\* Response.Defer: appends f to the deferred functions.
ResponseDefer(c, f) ==
    [c EXCEPT !.r.deferredFuncs = Append(@, f)]

\* ------------------------------------------------------------ the pools
\* A Get that leaves the object in the pool.
PoolGetKeep(pool, x) == pool

\* sync.Pool: Get removes the object it returns, Put adds one.
PoolGet(pool, x) == pool \ {x}
PoolPut(pool, x) == pool \cup {x}

InFlight(w) == pc[w] \notin {"idle", "gotreq", "gotres"}

\* The objects a sync.Pool's New would have to make: neither pooled nor held.
FreshRequests == ObjIds \ (requestPool \cup {req[w] : w \in Workers})
FreshResponses == ObjIds \ (responsePool \cup {res[w] : w \in Workers})
FreshBuffers ==
    ObjIds \ (routeParamValuesPool
              \cup {reqs[req[w]].routeParamValues : w \in {v \in Workers : InFlight(v) /\ req[v] # Nil}})

Least(S) == CHOOSE x \in S : \A y \in S : x <= y

\* What Get may return: any pooled object, or a new one when the pool is
\* empty.  (A miss on a non-empty pool, which sync.Pool permits, only brings
\* in one more new object.)
Gettable(pool, fresh) ==
    IF pool # {} THEN pool ELSE IF fresh = {} THEN {} ELSE {Least(fresh)}

ZeroRequest == [params |-> 0, routeParamValues |-> Nil, res |-> Nil]
ZeroResponse ==
    [Status |-> 0, ContentLength |-> 0, Written |-> FALSE, Minified |-> FALSE,
     Gzipped |-> FALSE, deferredFuncs |-> <<>>, req |-> Nil]

\* ----------------------------------------------------------- ServeHTTP
\* A reset that leaves req.res as the last lifecycle set it.
ResetRequestKeepRes(rq, resId) ==
    [rq EXCEPT !.params = 0, !.routeParamValues = Nil]

\* The reset of the request.
ResetRequest(rq, resId) ==
    [rq EXCEPT !.res = resId, !.params = 0, !.routeParamValues = Nil]

\* A reset that forgets Written and the deferred functions.
ResetResponseStale(rs, reqId) ==
    [rs EXCEPT !.Status = StatusOK, !.ContentLength = DefaultContentLength,
               !.Minified = FALSE, !.Gzipped = FALSE, !.req = reqId]

\* The reset of the response.
ResetResponse(rs, reqId) ==
    [rs EXCEPT !.Status = StatusOK, !.ContentLength = DefaultContentLength,
               !.Written = FALSE, !.Minified = FALSE, !.Gzipped = FALSE,
               !.req = reqId, !.deferredFuncs = SubSeq(@, 1, 0)]

Ctx(w) == [r |-> ress[res[w]], h |-> hdr[w], s |-> sent[w], b |-> wrote[w]]

SetCtx(w, c) ==
    /\ ress' = [ress EXCEPT ![res[w]] = c.r]
    /\ hdr' = [hdr EXCEPT ![w] = c.h]
    /\ sent' = [sent EXCEPT ![w] = c.s]
    /\ wrote' = [wrote EXCEPT ![w] = c.b]

\* req := s.requestPool.Get().(*Request); a new inbound request arrives
\* with its own header and a fresh http.ResponseWriter.
GetRequest(w, x, inHeader) ==
    /\ pc[w] = "idle"
    /\ x \in Gettable(requestPool, FreshRequests)
    /\ requestPool' = PoolGet(requestPool, x)
    /\ req' = [req EXCEPT ![w] = x]
    /\ rhdr' = [rhdr EXCEPT ![w] = inHeader]
    /\ pc' = [pc EXCEPT ![w] = "gotreq"]
    /\ UNCHANGED <<serveVars, auxVars, responsePool, routeParamValuesPool, reqs, ress, res, cur,
                   dir, err, di, ops, hdr, sent, wrote, log, ran, registered>>

\* res := s.responsePool.Get().(*Response)
GetResponse(w, x) ==
    /\ pc[w] = "gotreq"
    /\ x \in Gettable(responsePool, FreshResponses)
    /\ responsePool' = PoolGet(responsePool, x)
    /\ res' = [res EXCEPT ![w] = x]
    /\ pc' = [pc EXCEPT ![w] = "gotres"]
    /\ UNCHANGED <<serveVars, auxVars, requestPool, routeParamValuesPool, reqs, ress, req, cur,
                   dir, err, di, ops, hdr, rhdr, sent, wrote, log, ran, registered>>

\* The reset of both objects, up to the start of the chain.
Reset(w) ==
    /\ pc[w] = "gotres"
    /\ reqs' = [reqs EXCEPT ![req[w]] = ResetRequest(@, res[w])]
    /\ ress' = [ress EXCEPT ![res[w]] = ResetResponse(@, req[w])]
    /\ cur' = [cur EXCEPT ![w] = 0]
    /\ dir' = [dir EXCEPT ![w] = "down"]
    /\ err' = [err EXCEPT ![w] = FALSE]
    /\ pc' = [pc EXCEPT ![w] = "chain"]
    /\ UNCHANGED <<serveVars, auxVars, requestPool, responsePool, routeParamValuesPool, req, res,
                   di, ops, hdr, rhdr, sent, wrote, log, ran, registered>>

InStage(w) == pc[w] = "chain" /\ cur[w] >= 1 /\ IsStage(Chain[cur[w]])

\* The element running calls the one it wraps: a stage that calls its
\* continuation, the dispatcher calling h(req, res), or the closure around
\* the matched handler calling rh.
Enter(w) ==
    /\ pc[w] = "chain" /\ dir[w] = "down"
    /\ cur[w] < Len(Chain)
    /\ Chain[cur[w] + 1] # RouteStep
    /\ cur' = [cur EXCEPT ![w] = @ + 1]
    /\ log' = [log EXCEPT ![w] =
                 IF Chain[cur[w] + 1] = WrapStep THEN @
                 ELSE Append(@, Chain[cur[w] + 1])]
    /\ UNCHANGED <<serveVars, auxVars, requestPool, responsePool, routeParamValuesPool, reqs, ress,
                   pc, req, res, dir, err, di, ops, hdr, rhdr, sent, wrote, ran,
                   registered>>

\* rh := s.a.router.route(req): the router matches a route with k
\* parameters and, when k > 0, hands the request a values buffer b taken
\* from its pool.
Route(w, k, b) ==
    /\ pc[w] = "chain" /\ dir[w] = "down"
    /\ cur[w] < Len(Chain)
    /\ Chain[cur[w] + 1] = RouteStep
    /\ IF k = 0
       THEN /\ b = Nil
            /\ UNCHANGED <<reqs, routeParamValuesPool>>
       ELSE /\ b \in Gettable(routeParamValuesPool, FreshBuffers)
            /\ routeParamValuesPool' = PoolGet(routeParamValuesPool, b)
            /\ reqs' = [reqs EXCEPT ![req[w]].params = k,
                                    ![req[w]].routeParamValues = b]
    /\ cur' = [cur EXCEPT ![w] = @ + 1]
    /\ log' = [log EXCEPT ![w] = Append(@, RouteStep)]
    /\ UNCHANGED <<serveVars, auxVars, requestPool, responsePool, ress, pc, req, res, dir, err, di,
                   ops, hdr, rhdr, sent, wrote, ran, registered>>

ReturnFrame(w, e) ==
    /\ cur' = [cur EXCEPT ![w] = @ - 1]
    /\ dir' = [dir EXCEPT ![w] = "up"]
    /\ err' = [err EXCEPT ![w] = e]
    /\ UNCHANGED <<serveVars, auxVars, requestPool, responsePool, routeParamValuesPool, reqs, ress,
                   pc, req, res, di, ops, hdr, rhdr, sent, wrote, log, ran, registered>>

\* The matched handler rh returns e.
HandlerReturn(w, e) ==
    /\ InStage(w) /\ Chain[cur[w]] = MatchedHandler
    /\ ReturnFrame(w, e)

\* A pregas or gas returns e without calling its continuation.
StageShortCircuit(w, e) ==
    /\ InStage(w) /\ Chain[cur[w]] # MatchedHandler /\ dir[w] = "down"
    /\ ReturnFrame(w, e)

\* A pregas or gas returns e after its continuation has returned err[w].
StageUnwind(w, e) ==
    /\ InStage(w) /\ Chain[cur[w]] # MatchedHandler /\ dir[w] = "up"
    /\ ReturnFrame(w, e)

\* return h(req, res) of the closure that resolved the route.
RouteReturn(w) ==
    /\ pc[w] = "chain" /\ dir[w] = "up"
    /\ cur[w] >= 1 /\ Chain[cur[w]] = RouteStep
    /\ cur' = [cur EXCEPT ![w] = @ - 1]
    /\ UNCHANGED <<serveVars, auxVars, requestPool, responsePool, routeParamValuesPool, reqs, ress,
                   pc, req, res, dir, err, di, ops, hdr, rhdr, sent, wrote, log, ran,
                   registered>>

\* The closure around the matched handler, after err := rh(req, res).
\* r.Header is the header of the inbound *http.Request r.
WrapResult(c, inHeader, e) ==
    IF c.r.Written THEN [c |-> c, rh |-> inHeader, err |-> e]
    ELSE IF ~e
    THEN [c |-> ResponseWrite([c EXCEPT !.r.Status = StatusNoContent], 0, TRUE),
          rh |-> inHeader \ {"Content-Type", "Content-Length"},
          err |-> FALSE]
    ELSE IF c.r.Status < StatusBadRequest
    THEN [c |-> [c EXCEPT !.r.Status = StatusInternalServerError],
          rh |-> inHeader, err |-> e]
    ELSE [c |-> c, rh |-> inHeader, err |-> e]

WrapReturn(w) ==
    /\ pc[w] = "chain" /\ dir[w] = "up"
    /\ cur[w] >= 1 /\ Chain[cur[w]] = WrapStep
    /\ LET out == WrapResult(Ctx(w), rhdr[w], err[w])
       IN /\ SetCtx(w, out.c)
          /\ rhdr' = [rhdr EXCEPT ![w] = out.rh]
          /\ err' = [err EXCEPT ![w] = out.err]
    /\ cur' = [cur EXCEPT ![w] = @ - 1]
    /\ UNCHANGED <<serveVars, auxVars, requestPool, responsePool, routeParamValuesPool, reqs, pc,
                   req, res, dir, di, ops, log, ran, registered>>

\* if err := h(req, res); err != nil { s.a.ErrorHandler(err, req, res) }
ChainDone(w) ==
    /\ pc[w] = "chain" /\ dir[w] = "up" /\ cur[w] = 0
    /\ IF err[w]
       THEN /\ pc' = [pc EXCEPT ![w] = "errorhandler"]
            /\ UNCHANGED di
       ELSE /\ pc' = [pc EXCEPT ![w] = "deferred"]
            /\ di' = [di EXCEPT ![w] = Len(ress[res[w]].deferredFuncs)]
    /\ UNCHANGED <<serveVars, auxVars, requestPool, responsePool, routeParamValuesPool, reqs, ress,
                   req, res, cur, dir, err, ops, hdr, rhdr, sent, wrote, log, ran,
                   registered>>

\* The ErrorHandler collaborator: writes the error as the response body
\* when nothing has been written yet.
ErrorHandlerResult(c, n) ==
    IF c.r.Written THEN c ELSE ResponseWrite(c, n, TRUE)

ErrorHandler(w, n) ==
    /\ pc[w] = "errorhandler"
    /\ LET c == ErrorHandlerResult(Ctx(w), n)
       IN /\ SetCtx(w, c)
          /\ di' = [di EXCEPT ![w] = Len(c.r.deferredFuncs)]
    /\ pc' = [pc EXCEPT ![w] = "deferred"]
    /\ UNCHANGED <<serveVars, auxVars, requestPool, responsePool, routeParamValuesPool, reqs, req,
                   res, cur, dir, err, ops, rhdr, log, ran, registered>>

\* The loop stepping over every other function.
DeferredNextSkip(i) == i - 2

\* for i := len(res.deferredFuncs) - 1; i >= 0; i-- { res.deferredFuncs[i]() }
\* (indices here are 1-based: di is i + 1).
DeferredNext(i) == i - 1

RunDeferred(w) ==
    /\ pc[w] = "deferred"
    /\ IF di[w] >= 1 /\ di[w] <= Len(ress[res[w]].deferredFuncs)
       THEN /\ ran' = [ran EXCEPT ![w] = Append(@, ress[res[w]].deferredFuncs[di[w]])]
            /\ di' = [di EXCEPT ![w] = DeferredNext(@)]
            /\ UNCHANGED pc
       ELSE /\ pc' = [pc EXCEPT ![w] = "putparams"]
            /\ UNCHANGED <<ran, di>>
    /\ UNCHANGED <<serveVars, auxVars, requestPool, responsePool, routeParamValuesPool, reqs, ress,
                   req, res, cur, dir, err, ops, hdr, rhdr, sent, wrote, log, registered>>

\* A Put of req.routeParamValues whether or not it is nil.
PutRouteParamValuesAlways(w) ==
    /\ pc[w] = "putparams"
    /\ routeParamValuesPool' =
         PoolPut(routeParamValuesPool, reqs[req[w]].routeParamValues)
    /\ pc' = [pc EXCEPT ![w] = "putreq"]
    /\ UNCHANGED <<serveVars, auxVars, requestPool, responsePool, reqs, ress, req, res, cur, dir,
                   err, di, ops, hdr, rhdr, sent, wrote, log, ran, registered>>

\* if req.routeParamValues != nil { ...routeParamValuesPool.Put(...) }
PutRouteParamValues(w) ==
    /\ pc[w] = "putparams"
    /\ routeParamValuesPool' =
         IF reqs[req[w]].routeParamValues # Nil
         THEN PoolPut(routeParamValuesPool, reqs[req[w]].routeParamValues)
         ELSE routeParamValuesPool
    /\ pc' = [pc EXCEPT ![w] = "putreq"]
    /\ UNCHANGED <<serveVars, auxVars, requestPool, responsePool, reqs, ress, req, res, cur, dir,
                   err, di, ops, hdr, rhdr, sent, wrote, log, ran, registered>>

\* s.requestPool.Put(req)
PutRequest(w) ==
    /\ pc[w] = "putreq"
    /\ requestPool' = PoolPut(requestPool, req[w])
    /\ req' = [req EXCEPT ![w] = Nil]
    /\ pc' = [pc EXCEPT ![w] = "putres"]
    /\ UNCHANGED <<serveVars, auxVars, responsePool, routeParamValuesPool, reqs, ress, res, cur,
                   dir, err, di, ops, hdr, rhdr, sent, wrote, log, ran, registered>>

\* s.responsePool.Put(res); ServeHTTP returns.
PutResponse(w) ==
    /\ pc[w] = "putres"
    /\ responsePool' = PoolPut(responsePool, res[w])
    /\ res' = [res EXCEPT ![w] = Nil]
    /\ pc' = [pc EXCEPT ![w] = "idle"]
    /\ cur' = [cur EXCEPT ![w] = 0]
    /\ dir' = [dir EXCEPT ![w] = "down"]
    /\ err' = [err EXCEPT ![w] = FALSE]
    /\ di' = [di EXCEPT ![w] = 0]
    /\ ops' = [ops EXCEPT ![w] = 0]
    /\ hdr' = [hdr EXCEPT ![w] = {}]
    /\ rhdr' = [rhdr EXCEPT ![w] = {}]
    /\ sent' = [sent EXCEPT ![w] = 0]
    /\ wrote' = [wrote EXCEPT ![w] = 0]
    /\ log' = [log EXCEPT ![w] = <<>>]
    /\ ran' = [ran EXCEPT ![w] = <<>>]
    /\ registered' = [registered EXCEPT ![w] = <<>>]
    /\ UNCHANGED <<serveVars, auxVars, requestPool, routeParamValuesPool, reqs, ress, req>>

\* ------------------------------------------- what a stage does to the response
CanOp(w) == InStage(w) /\ ops[w] < MaxOps

OpFrame(w) ==
    /\ ops' = [ops EXCEPT ![w] = @ + 1]
    /\ UNCHANGED <<serveVars, auxVars, requestPool, responsePool, routeParamValuesPool, reqs, pc,
                   req, res, cur, dir, err, di, rhdr, log, ran>>

\* res.Status = status
SetStatus(w, status) ==
    /\ CanOp(w)
    /\ SetCtx(w, [Ctx(w) EXCEPT !.r.Status = status])
    /\ OpFrame(w) /\ UNCHANGED registered

\* res.Header.Set(key, ...)
SetHeader(w, key) ==
    /\ CanOp(w)
    /\ SetCtx(w, [Ctx(w) EXCEPT !.h = @ \cup {key}])
    /\ OpFrame(w) /\ UNCHANGED registered

\* res.HTTPResponseWriter().WriteHeader(status)
WriteHeader(w, status) ==
    /\ CanOp(w)
    /\ SetCtx(w, RWWriteHeader(Ctx(w), status))
    /\ OpFrame(w) /\ UNCHANGED registered

\* res.Write(content)
Write(w, n, ok) ==
    /\ CanOp(w)
    /\ SetCtx(w, ResponseWrite(Ctx(w), n, ok))
    /\ OpFrame(w) /\ UNCHANGED registered

\* res.Redirect(url)
Redirect(w, n) ==
    /\ CanOp(w)
    /\ SetCtx(w, ResponseRedirect(Ctx(w), n))
    /\ OpFrame(w) /\ UNCHANGED registered

\* res.WebSocket()
WebSocket(w, outcome, status) ==
    /\ CanOp(w)
    /\ SetCtx(w, ResponseWebSocket(Ctx(w), outcome, status))
    /\ OpFrame(w) /\ UNCHANGED registered

\* res.Defer(f): f is named by its rank among this lifecycle's registrations.
Defer(w) ==
    /\ CanOp(w)
    /\ LET f == Len(registered[w]) + 1
       IN /\ SetCtx(w, ResponseDefer(Ctx(w), f))
          /\ registered' = [registered EXCEPT ![w] = Append(@, f)]
    /\ OpFrame(w)

\* The response code marks the body as minified and gzipped.
SetFlags(w) ==
    /\ CanOp(w)
    /\ SetCtx(w, [Ctx(w) EXCEPT !.r.Minified = TRUE, !.r.Gzipped = TRUE])
    /\ OpFrame(w) /\ UNCHANGED registered

\* ------------------------------------------------------------- serve()
\* Host names as they arrive in a ClientHello or a Host header.
HostNames == {"example.com", "EXAMPLE.COM", "other.org", "10.0.0.1"}
IPLiterals == {"10.0.0.1"}
Ports == {"80", "443", "8080", "https"}
Whitelists == {{}, {"example.com"}, {"EXAMPLE.COM", "10.0.0.1"}}

\* The RequestURI of a request: its path and query.
RequestURIs == {"/", "/a?b=1", "/.well-known/acme-challenge/token"}

\* A host string: a name and, after a colon, a port ("" when there is none).
HostStrings == [name : HostNames, port : {"", "8080"}]

\* strings.ToLower
ToLower(n) == IF n = "EXAMPLE.COM" THEN "example.com" ELSE n

\* net.ParseIP(host) != nil
ParsesAsIP(n) == n \in IPLiterals

\* h, _, _ := net.SplitHostPort(host): the name when host carries a port,
\* "" (an error) when it does not.
SplitHostPort(host) == IF host.port # "" THEN host.name ELSE ""

\* stringSliceContainsCIly(list, s): s is in list, case-insensitively.
StringSliceContainsCIly(list, n) == \E x \in list : ToLower(x) = ToLower(n)

\* server.allowedHost
AllowedHost(c, host) ==
    IF c.DebugMode \/ c.HostWhitelist = {} THEN TRUE
    ELSE LET h == SplitHostPort(host)
             name == IF h # "" THEN h ELSE host.name
         IN StringSliceContainsCIly(c.HostWhitelist, name)

Configs ==
    [Address : {"ok", "bad"}, Port : Ports, DebugMode : BOOLEAN,
     HTTPSEnforced : BOOLEAN, ACMEEnabled : BOOLEAN,
     TLSCertFile : {"", "cert.pem"}, TLSKeyFile : {"", "key.pem"},
     HostWhitelist : Whitelists]

DefaultConfig ==
    [Address |-> "ok", Port |-> "8080", DebugMode |-> FALSE,
     HTTPSEnforced |-> FALSE, ACMEEnabled |-> FALSE, TLSCertFile |-> "",
     TLSKeyFile |-> "", HostWhitelist |-> {}]

NotListening == [kind |-> "none", port |-> ""]
NoConn == [on |-> "none"]

\* hh: the handler serve() prepares for the listener on :80.
\*   "none"                 hh == nil
\*   "redirect"             the https redirector (h2c for IP literals)
\*   "acme+redirect"        acm.HTTPHandler(redirector)
\*   "acme+h2c"             acm.HTTPHandler(h2ch)

\* A redirector prepared whatever the configured port is.
RedirectorWantedAnyPort(c) == c.HTTPSEnforced

\* if s.a.HTTPSEnforced && port != "80" && port != "https": whether serve()
\* prepares the redirector.
RedirectorWanted(c) ==
    c.HTTPSEnforced /\ c.Port # "80" /\ c.Port # "https"

\* The branches tested in the other order.
TopologyAcmeFirst(c) ==
    IF ~c.DebugMode /\ c.ACMEEnabled THEN "acme"
    ELSE IF c.TLSCertFile # "" /\ c.TLSKeyFile # "" THEN "static"
    ELSE "plaintext"

\* The branch serve() takes once the address is parsed.
Topology(c) ==
    IF c.TLSCertFile # "" /\ c.TLSKeyFile # "" THEN "static"
    ELSE IF ~c.DebugMode /\ c.ACMEEnabled THEN "acme"
    ELSE "plaintext"

\* host, port, err := net.SplitHostPort(s.a.Address)
ServeStart ==
    /\ servePc = "init"
    /\ servePc' = IF cfg.Address = "bad" THEN "failed" ELSE "configured"
    /\ UNCHANGED <<lifeVars, auxVars, cfg, tlsConfig, primary, secondary, conn>>

\* The rest of serve(), up to the listeners being up.  certLoads: whether
\* tls.LoadX509KeyPair succeeds.
ServeListen(certLoads) ==
    /\ servePc = "configured"
    /\ LET t == Topology(cfg)
           hh0 == IF RedirectorWanted(cfg) THEN "redirect" ELSE "none"
       IN CASE t = "static" /\ ~certLoads ->
                 /\ servePc' = "failed"
                 /\ UNCHANGED <<tlsConfig, primary, secondary>>
            [] t = "static" /\ certLoads ->
                 /\ tlsConfig' = "static"
                 /\ secondary' = hh0
                 /\ primary' = [kind |-> "tls", port |-> cfg.Port]
                 /\ servePc' = "listening"
            [] t = "acme" ->
                 /\ tlsConfig' = "acme"
                 /\ secondary' = IF hh0 # "none" THEN "acme+redirect" ELSE "acme+h2c"
                 /\ primary' = [kind |-> "tls", port |-> "443"]
                 /\ servePc' = "listening"
            [] OTHER ->
                 /\ tlsConfig' = "none"
                 /\ secondary' = "none"
                 /\ primary' = [kind |-> "plaintext", port |-> cfg.Port]
                 /\ servePc' = "listening"
    /\ UNCHANGED <<lifeVars, auxVars, cfg, conn>>

\* A callback whose automatic-certificate branch lacks the host check.
GetCertificateUngated(c, mode, sni) ==
    IF mode = "static"
    THEN IF ~AllowedHost(c, [name |-> sni, port |-> ""])
         THEN [cert |-> "none", closed |-> TRUE, manager |-> FALSE, name |-> sni]
         ELSE [cert |-> "static", closed |-> FALSE, manager |-> FALSE, name |-> sni]
    ELSE IF ParsesAsIP(sni)
    THEN [cert |-> "unchallengeable", closed |-> FALSE, manager |-> FALSE,
          name |-> sni]
    ELSE [cert |-> "managed", closed |-> FALSE, manager |-> TRUE,
          name |-> ToLower(sni)]

\* The GetCertificate callback serve() installs, for a ClientHello naming
\* sni: what it returns, whether it closed chi.Conn, and whether the
\* certificate manager was asked.
GetCertificate(c, mode, sni) ==
    IF ~AllowedHost(c, [name |-> sni, port |-> ""])
    THEN [cert |-> "none", closed |-> TRUE, manager |-> FALSE, name |-> sni]
    ELSE IF mode = "static"
    THEN [cert |-> "static", closed |-> FALSE, manager |-> FALSE, name |-> sni]
    ELSE IF ParsesAsIP(sni)
    THEN [cert |-> "unchallengeable", closed |-> FALSE, manager |-> FALSE,
          name |-> sni]
    ELSE [cert |-> "managed", closed |-> FALSE, manager |-> TRUE,
          name |-> ToLower(sni)]

\* A TLS handshake reaches the primary listener.
Handshake(sni) ==
    /\ servePc = "listening" /\ primary.kind = "tls"
    /\ conn' = [on |-> "tls", sni |-> sni,
                out |-> GetCertificate(cfg, tlsConfig, sni)]
    /\ UNCHANGED <<lifeVars, auxVars, cfg, servePc, tlsConfig, primary, secondary>>

\* The handler of the plaintext-only server: what happens to a request
\* with this Host.
PlainHandler(c, host) ==
    IF AllowedHost(c, host) THEN [to |-> "h2c", closed |-> FALSE]
    ELSE [to |-> "none", closed |-> TRUE]

\* A redirector that appends the configured port whatever it is.
RedirectorAnyPort(c, host, uri) ==
    LET h == SplitHostPort(host)
        name == IF h # "" THEN h ELSE host.name
    IN IF ~ParsesAsIP(name)
       THEN [to |-> "redirect", closed |-> FALSE,
             status |-> StatusMovedPermanently,
             target |-> [scheme |-> "https", name |-> name, port |-> c.Port,
                         uri |-> uri]]
       ELSE [to |-> "h2c", closed |-> FALSE]

\* The https redirector hh, for a request with this Host and RequestURI:
\* http.Redirect to "https://" + host + r.RequestURI.
Redirector(c, host, uri) ==
    LET h == SplitHostPort(host)
        name == IF h # "" THEN h ELSE host.name
    IN IF ~ParsesAsIP(name)
       THEN [to |-> "redirect", closed |-> FALSE,
             status |-> StatusMovedPermanently,
             target |-> [scheme |-> "https", name |-> name,
                         port |-> IF c.Port # "443" /\ c.Port # "https"
                                  THEN c.Port ELSE "",
                         uri |-> uri]]
       ELSE [to |-> "h2c", closed |-> FALSE]

\* The requests acm.HTTPHandler answers itself: those for a path under
\* /.well-known/acme-challenge/.
IsChallenge(uri) == uri = "/.well-known/acme-challenge/token"

\* hh.ServeHTTP: acm.HTTPHandler answers the HTTP-01 challenge requests
\* itself and hands every other request to its fallback.
SecondaryForward(c, hh, host, uri) ==
    CASE hh = "redirect" -> Redirector(c, host, uri)
      [] hh = "acme+redirect" ->
           IF IsChallenge(uri) THEN [to |-> "challenge", closed |-> FALSE]
           ELSE Redirector(c, host, uri)
      [] OTHER ->
           IF IsChallenge(uri) THEN [to |-> "challenge", closed |-> FALSE]
           ELSE [to |-> "h2c", closed |-> FALSE]

\* A handler that lets the challenge responder answer before the host gate.
SecondaryHandlerChallengeFirst(c, hh, host, uri) ==
    IF IsChallenge(uri) /\ hh # "redirect"
    THEN [to |-> "challenge", closed |-> FALSE]
    ELSE IF AllowedHost(c, host) THEN SecondaryForward(c, hh, host, uri)
    ELSE [to |-> "none", closed |-> TRUE]

\* The handler of the listener hs on :80.
SecondaryHandler(c, hh, host, uri) ==
    IF AllowedHost(c, host) THEN SecondaryForward(c, hh, host, uri)
    ELSE [to |-> "none", closed |-> TRUE]

\* A plaintext request reaches the primary listener.
PlainRequest(host) ==
    /\ servePc = "listening" /\ primary.kind = "plaintext"
    /\ conn' = [on |-> "plaintext", host |-> host, out |-> PlainHandler(cfg, host)]
    /\ UNCHANGED <<lifeVars, auxVars, cfg, servePc, tlsConfig, primary, secondary>>

\* A plaintext request reaches the listener on :80.
SecondaryRequest(host, uri) ==
    /\ servePc = "listening" /\ secondary # "none"
    /\ conn' = [on |-> "secondary", host |-> host, uri |-> uri,
                challenge |-> IsChallenge(uri),
                out |-> SecondaryHandler(cfg, secondary, host, uri)]
    /\ UNCHANGED <<lifeVars, auxVars, cfg, servePc, tlsConfig, primary, secondary>>


\* --------------------------------------------------------- the minifier
Bytes == {"x", " "}
Payloads == UNION {[1 .. n -> Bytes] : n \in 0 .. MaxLen}
MimeTypes == {"image/jpeg", "image/png", "text/html", "application/json",
              "text/plain"}

\* minifier.Init: the types added to m.m.
Registered ==
    {"text/html", "text/css", "text/javascript", "application/json",
     "text/xml", "image/svg+xml"}

\* What a registered minifier writes: the payload with every run of white
\* space reduced to one byte of it.
RECURSIVE Shrink(_)
Shrink(b) ==
    IF Len(b) <= 1 THEN b
    ELSE IF b[1] = " " /\ b[2] = " " THEN Shrink(Tail(b))
    ELSE <<b[1]>> \o Shrink(Tail(b))

\* A result ([]byte, error): err = "" stands for a nil error, and the bytes
\* returned with an error are nil.
Result(b, e) == [b |-> b, err |-> e]

\* m.m.Minify(mimeType, buf, r) of the minify library: ErrNotExist when no
\* minifier is registered for the type; ok: the registered minifier accepts
\* the input.
LibMinify(mimeType, b, ok) ==
    IF mimeType \notin Registered THEN Result(<<>>, "ErrNotExist")
    ELSE IF ~ok THEN Result(<<>>, "minify error")
    ELSE Result(Shrink(b), "")

\* minifier.minifyJPEG: decode and encode again; ok: the payload decodes.
MinifyJPEG(b, ok) ==
    IF ~ok THEN Result(<<>>, "decode error") ELSE Result(Shrink(b), "")

\* minifier.minifyPNG
MinifyPNG(b, ok) ==
    IF ~ok THEN Result(<<>>, "decode error") ELSE Result(Shrink(b), "")

\* minifier.minifyOthers
MinifyOthers(mimeType, b, ok) ==
    LET r == LibMinify(mimeType, b, ok)
    IN IF r.err = "ErrNotExist" THEN Result(<<>>, "unsupported mime type")
       ELSE IF r.err # "" THEN Result(<<>>, r.err)
       ELSE Result(r.b, "")

\* minifier.Minify
Minify(mimeType, b, ok) ==
    CASE mimeType = "image/jpeg" -> MinifyJPEG(b, ok)
      [] mimeType = "image/png" -> MinifyPNG(b, ok)
      [] OTHER -> MinifyOthers(mimeType, b, ok)

\* The caller-facing minify that Response.WriteBlob calls: a type without a
\* minifier passes through.
minify(mimeType, b, ok) ==
    IF mimeType \notin Registered \cup {"image/jpeg", "image/png"}
    THEN Result(b, "")
    ELSE Minify(mimeType, b, ok)

\* Response.WriteBlob with the Content-Type header ct ("" when it is not
\* set): the bytes handed to Response.Write, or the error returned.
ResponseWriteBlob(ct, b, ok) ==
    IF ct # ""
    THEN LET m == minify(ct, b, ok)
         IN IF m.err # "" THEN Result(<<>>, m.err) ELSE Result(m.b, "")
    ELSE Result(b, "")

NoBlob == [pc |-> "none", ct |-> "", b |-> <<>>, out |-> <<>>, err |-> ""]

\* A call of Minify(blob.ct, blob.b).
MinifyCall(ok) ==
    /\ blob.pc = "start" /\ blob.ct # ""
    /\ LET r == Minify(blob.ct, blob.b, ok)
       IN blob' = [blob EXCEPT !.pc = "minified", !.out = r.b, !.err = r.err]
    /\ UNCHANGED <<lifeVars, serveVars, shutdownVars, loggerVars>>

\* A call of res.WriteBlob(blob.b) with Content-Type blob.ct.
WriteBlob(ok) ==
    /\ blob.pc = "start"
    /\ LET r == ResponseWriteBlob(blob.ct, blob.b, ok)
       IN blob' = [blob EXCEPT !.pc = "written", !.out = r.b, !.err = r.err]
    /\ UNCHANGED <<lifeVars, serveVars, shutdownVars, loggerVars>>

\* ------------------------------------------------------------ shutdown
Conns == 1 .. NConns
Durations == 1 .. MaxTime
Timeouts == -1 .. MaxTime
\* The clock stops here: a handler or a timeout that starts by MaxTime has
\* ended by then.
MaxClock == 2 * MaxTime

NoDeadline == [bounded |-> FALSE, at |-> 0]

\* A context with a deadline whatever the timeout is.
ShutdownContextAlways(timeout, t) == [bounded |-> TRUE, at |-> t + timeout]

\* The context server.shutdown hands to s.server.Shutdown at time t:
\* context.Background() when timeout <= 0, context.WithTimeout otherwise.
ShutdownContext(timeout, t) ==
    IF timeout <= 0 THEN NoDeadline ELSE [bounded |-> TRUE, at |-> t + timeout]

IdleConn == [state |-> "idle", finish |-> 0]
Serving ==
    [pc |-> "serving", timeout |-> 0, ctx |-> NoDeadline, called |-> 0,
     inflight |-> {}, finish |-> [c \in Conns |-> 0], result |-> "", at |-> 0,
     left |-> {}]

Active(c) == conns[c].state = "active"
Expired == shut.ctx.bounded /\ now >= shut.ctx.at

\* http.Server.Shutdown closes the connections that are idle.
CloseIdleConns(cs) ==
    [c \in Conns |-> IF cs[c].state = "idle" THEN [cs[c] EXCEPT !.state = "closed"]
                     ELSE cs[c]]

\* A request arrives on connection c; its handler will run for d.
HandlerStart(c, d) ==
    /\ shut.pc = "serving" /\ conns[c].state = "idle"
    /\ now <= MaxTime
    /\ conns' = [conns EXCEPT ![c] = [state |-> "active", finish |-> now + d]]
    /\ UNCHANGED <<lifeVars, serveVars, minifyVars, loggerVars, now, shut>>

\* The handler on connection c returns: the connection goes back to idle.
HandlerDone(c) ==
    /\ Active(c) /\ conns[c].finish = now
    /\ conns' = [conns EXCEPT ![c].state = "idle"]
    /\ UNCHANGED <<lifeVars, serveVars, minifyVars, loggerVars, now, shut>>

\* Time passes, unless something is due now: a handler that returns, a
\* Shutdown whose connections have all gone idle, a context that is done.
Tick ==
    /\ now < MaxClock
    /\ \A c \in Conns : Active(c) => conns[c].finish > now
    /\ shut.pc = "waiting" => (\E c \in Conns : Active(c)) /\ ~Expired
    /\ now' = now + 1
    /\ UNCHANGED <<lifeVars, serveVars, minifyVars, loggerVars, conns, shut>>

\* server.shutdown(timeout) up to the call of s.server.Shutdown, which
\* closes the listeners and the idle connections and starts to wait.
ShutdownCall(timeout) ==
    /\ shut.pc = "serving"
    /\ shut' = [Serving EXCEPT !.pc = "waiting", !.timeout = timeout,
                               !.ctx = ShutdownContext(timeout, now),
                               !.called = now,
                               !.inflight = {c \in Conns : Active(c)},
                               !.finish = [c \in Conns |-> conns[c].finish]]
    /\ conns' = CloseIdleConns(conns)
    /\ UNCHANGED <<lifeVars, serveVars, minifyVars, loggerVars, now>>

\* s.server.Shutdown finds every connection idle and returns nil.
ShutdownReturn ==
    /\ shut.pc = "waiting"
    /\ \A c \in Conns : ~Active(c)
    /\ shut' = [shut EXCEPT !.pc = "returned", !.result = "nil", !.at = now]
    /\ conns' = CloseIdleConns(conns)
    /\ UNCHANGED <<lifeVars, serveVars, minifyVars, loggerVars, now>>

\* The context is done first: s.server.Shutdown returns ctx.Err() and
\* leaves the connections that are still active as they are.
ShutdownTimeout ==
    /\ shut.pc = "waiting" /\ Expired
    /\ shut' = [shut EXCEPT !.pc = "returned",
                            !.result = "context deadline exceeded",
                            !.at = now,
                            !.left = {c \in Conns : Active(c)}]
    /\ UNCHANGED <<lifeVars, serveVars, minifyVars, loggerVars, now, conns>>

\* -------------------------------------------------------------- the logger
Goroutines == 1 .. NLoggers
LoggerLevels == LoggerLevelDebug .. LoggerLevelWarn
LoggerConfigs == [DebugMode : BOOLEAN, LoggerLowestLevel : LoggerLevels]

\* if !l.a.DebugMode && ll < l.a.LoggerLowestLevel { return }
Filtered(c, lvl) == ~c.DebugMode /\ lvl < c.LoggerLowestLevel

\* logger.log(lvl, ...) up to l.mutex.Lock().
LogCall(g, lvl) ==
    /\ lpc[g] = "idle"
    /\ Len(output) < 2 * MaxRecords
    /\ ll' = [ll EXCEPT ![g] = lvl]
    /\ lpc' = [lpc EXCEPT ![g] = IF Filtered(loggerCfg, lvl) THEN "idle" ELSE "lock"]
    /\ UNCHANGED <<lifeVars, serveVars, minifyVars, shutdownVars, loggerCfg, mutex,
                   output>>

\* A log that goes on without taking the mutex.
LogLockSkip(g) ==
    /\ lpc[g] = "lock"
    /\ lpc' = [lpc EXCEPT ![g] = "build"]
    /\ UNCHANGED <<lifeVars, serveVars, minifyVars, shutdownVars, loggerCfg, ll, mutex,
                   output>>

\* l.mutex.Lock(): blocks while another goroutine holds the mutex.
LogLock(g) ==
    /\ lpc[g] = "lock"
    /\ mutex = Nil
    /\ mutex' = g
    /\ lpc' = [lpc EXCEPT ![g] = "build"]
    /\ UNCHANGED <<lifeVars, serveVars, minifyVars, shutdownVars, loggerCfg, ll, output>>

\* The record is built: the fields are collected and marshalled into b.
LogBuild(g) ==
    /\ lpc[g] = "build"
    /\ lpc' = [lpc EXCEPT ![g] = "write"]
    /\ UNCHANGED <<lifeVars, serveVars, minifyVars, shutdownVars, loggerCfg, ll, mutex,
                   output>>

\* l.a.LoggerOutput.Write(append(b, '\n')): the output receives the record
\* and then its newline.
LogWrite(g) ==
    /\ lpc[g] \in {"write", "newline"}
    /\ output' = Append(output, [by |-> g, lvl |-> ll[g],
                                 part |-> IF lpc[g] = "write" THEN "record" ELSE "newline"])
    /\ lpc' = [lpc EXCEPT ![g] = IF lpc[g] = "write" THEN "newline" ELSE "unlock"]
    /\ UNCHANGED <<lifeVars, serveVars, minifyVars, shutdownVars, loggerCfg, ll, mutex>>

\* defer l.mutex.Unlock()
LogUnlock(g) ==
    /\ lpc[g] = "unlock"
    /\ mutex' = Nil
    /\ lpc' = [lpc EXCEPT ![g] = "idle"]
    /\ UNCHANGED <<lifeVars, serveVars, minifyVars, shutdownVars, loggerCfg, ll, output>>

\* ------------------------------------------------------- specifications
InitLife ==
    /\ requestPool = {} /\ responsePool = {} /\ routeParamValuesPool = {}
    /\ reqs = [x \in ObjIds |-> ZeroRequest]
    /\ ress = [x \in ObjIds |-> ZeroResponse]
    /\ pc = [w \in Workers |-> "idle"]
    /\ req = [w \in Workers |-> Nil]
    /\ res = [w \in Workers |-> Nil]
    /\ cur = [w \in Workers |-> 0]
    /\ dir = [w \in Workers |-> "down"]
    /\ err = [w \in Workers |-> FALSE]
    /\ di = [w \in Workers |-> 0]
    /\ ops = [w \in Workers |-> 0]
    /\ hdr = [w \in Workers |-> {}]
    /\ rhdr = [w \in Workers |-> {}]
    /\ sent = [w \in Workers |-> 0]
    /\ wrote = [w \in Workers |-> 0]
    /\ log = [w \in Workers |-> <<>>]
    /\ ran = [w \in Workers |-> <<>>]
    /\ registered = [w \in Workers |-> <<>>]

\* serve() has not run yet.
InitListeners ==
    /\ servePc = "init"
    /\ tlsConfig = "none"
    /\ primary = NotListening
    /\ secondary = "none"
    /\ conn = NoConn

\* Nothing is being minified, shut down or logged.
InitAux ==
    /\ blob = NoBlob
    /\ now = 0
    /\ conns = [c \in Conns |-> IdleConn]
    /\ shut = Serving
    /\ loggerCfg = [DebugMode |-> FALSE, LoggerLowestLevel |-> LoggerLevelDebug]
    /\ lpc = [g \in Goroutines |-> "idle"]
    /\ ll = [g \in Goroutines |-> LoggerLevelDebug]
    /\ mutex = Nil
    /\ output = <<>>

Init == InitLife /\ InitListeners /\ cfg = DefaultConfig /\ InitAux

InHeaders == {{}, HeaderKeys}
Outcomes == {"ok", "rejected", "failed"}

\* The steps of ServeHTTP that do not depend on what the stages choose.
Lifecycle(w) ==
    \/ \E x \in ObjIds : GetResponse(w, x)
    \/ Reset(w)
    \/ Enter(w)
    \/ \E k \in 0 .. MaxParams, b \in ObjIds \cup {Nil} : Route(w, k, b)
    \/ \E e \in BOOLEAN : HandlerReturn(w, e)
    \/ RouteReturn(w)
    \/ WrapReturn(w)
    \/ ChainDone(w)
    \/ \E n \in 1 .. MaxBody : ErrorHandler(w, n)
    \/ RunDeferred(w)
    \/ PutRouteParamValues(w)
    \/ PutRequest(w)
    \/ PutResponse(w)

StageOps(w) ==
    \/ \E s \in StatusInputs : SetStatus(w, s)
    \/ \E k \in HeaderKeys : SetHeader(w, k)
    \/ \E s \in StatusInputs : WriteHeader(w, s)
    \/ \E n \in 0 .. MaxBody, ok \in BOOLEAN : Write(w, n, ok)
    \/ \E n \in 0 .. MaxBody : Redirect(w, n)
    \/ \E o \in Outcomes, s \in UpgradeErrorStatuses : WebSocket(w, o, s)
    \/ Defer(w)
    \/ SetFlags(w)

\* One connection at a time; the stages use every response operation, may
\* short-circuit, and may return any result.
Next ==
    \/ \E x \in ObjIds, h \in InHeaders : GetRequest(1, x, h)
    \/ Lifecycle(1)
    \/ \E e \in BOOLEAN : StageShortCircuit(1, e)
    \/ \E e \in BOOLEAN : StageUnwind(1, e)
    \/ StageOps(1)

Spec == Init /\ [][Next]_vars

\* NWorkers connections served concurrently; the stages call their
\* continuations and pass the result on, and register deferred functions.
NextPool ==
    \E w \in Workers :
        \/ \E x \in ObjIds : GetRequest(w, x, {})
        \/ Lifecycle(w)
        \/ StageUnwind(w, err[w])
        \/ Defer(w)

SpecPool == Init /\ [][NextPool]_vars

\* serve() under every configuration, and the connections that reach its
\* listeners.
InitServe == InitLife /\ InitListeners /\ cfg \in Configs /\ InitAux

NextServe ==
    \/ ServeStart
    \/ \E certLoads \in BOOLEAN : ServeListen(certLoads)
    \/ \E sni \in HostNames : Handshake(sni)
    \/ \E host \in HostStrings : PlainRequest(host)
    \/ \E host \in HostStrings, uri \in RequestURIs : SecondaryRequest(host, uri)

SpecServe == InitServe /\ [][NextServe]_vars

\* Minify and Response.WriteBlob on every content type and payload.
InitMinify ==
    /\ InitLife /\ InitListeners /\ cfg = DefaultConfig
    /\ blob \in [pc : {"start"}, ct : MimeTypes \cup {""}, b : Payloads,
                  out : {<<>>}, err : {""}]
    /\ now = 0 /\ conns = [c \in Conns |-> IdleConn] /\ shut = Serving
    /\ loggerCfg = [DebugMode |-> FALSE, LoggerLowestLevel |-> LoggerLevelDebug]
    /\ lpc = [g \in Goroutines |-> "idle"]
    /\ ll = [g \in Goroutines |-> LoggerLevelDebug]
    /\ mutex = Nil /\ output = <<>>

NextMinify ==
    \/ \E ok \in BOOLEAN : MinifyCall(ok)
    \/ \E ok \in BOOLEAN : WriteBlob(ok)

SpecMinify == InitMinify /\ [][NextMinify]_vars

\* shutdown(timeout) called at any time on a server with handlers running.
NextShutdown ==
    \/ \E c \in Conns, d \in Durations : HandlerStart(c, d)
    \/ \E c \in Conns : HandlerDone(c)
    \/ Tick
    \/ \E t \in Timeouts : ShutdownCall(t)
    \/ ShutdownReturn
    \/ ShutdownTimeout

SpecShutdown == Init /\ [][NextShutdown]_vars

\* Concurrent calls of logger.log under every logger configuration.
InitLog ==
    /\ InitLife /\ InitListeners /\ cfg = DefaultConfig
    /\ blob = NoBlob
    /\ now = 0 /\ conns = [c \in Conns |-> IdleConn] /\ shut = Serving
    /\ loggerCfg \in LoggerConfigs
    /\ lpc = [g \in Goroutines |-> "idle"]
    /\ ll = [g \in Goroutines |-> LoggerLevelDebug]
    /\ mutex = Nil /\ output = <<>>

NextLog ==
    \E g \in Goroutines :
        \/ \E lvl \in LoggerLevels : LogCall(g, lvl)
        \/ LogLock(g)
        \/ LogBuild(g)
        \/ LogWrite(g)
        \/ LogUnlock(g)

SpecLog == InitLog /\ [][NextLog]_vars

\* ================================================================ claims
Reverse(q) == [i \in 1 .. Len(q) |-> q[Len(q) - i + 1]]
IsPrefix(a, b) == Len(a) <= Len(b) /\ \A i \in 1 .. Len(a) : a[i] = b[i]
Released == {"putparams", "putreq", "putres"}

\* P[0], ..., P[last], route, G[0], ..., G[last], H
ExpectedLog ==
    [i \in 1 .. NPregases + NGases + 2 |->
        IF i <= NPregases THEN <<"pregas", i>>
        ELSE IF i = NPregases + 1 THEN <<"route", 0>>
        ELSE IF i <= NPregases + NGases + 1 THEN <<"gas", i - NPregases - 1>>
        ELSE <<"handler", 0>>]

\* C1: the stages of one request are entered in the order P[0], ...,
\* P[last], route resolution, G[0], ..., G[last], matched handler H: what has
\* been entered so far is always an initial part of that order, and when
\* every stage has called its continuation, so that H is entered, it is the
\* whole of it.
C1_StageOrder ==
    \A w \in Workers :
        /\ IsPrefix(log[w], ExpectedLog)
        /\ (InStage(w) /\ Chain[cur[w]] = MatchedHandler) => log[w] = ExpectedLog

C1_Witness ==
    \E w \in Workers : InStage(w) /\ Chain[cur[w]] = MatchedHandler
                       /\ Len(log[w]) = NPregases + NGases + 2

\* C2: the deferred functions run only after the chain (and the
\* ErrorHandler) has finished, and once the loop is over every function
\* registered in this lifecycle has run exactly once, in the reverse of the
\* registration order, whether the chain returned nil or an error.
C2_DeferredLIFO ==
    \A w \in Workers :
        /\ ran[w] # <<>> => pc[w] \in {"deferred"} \cup Released
        /\ pc[w] = "deferred" => IsPrefix(ran[w], Reverse(registered[w]))
        /\ pc[w] \in Released => ran[w] = Reverse(registered[w])

C2_Witness ==
    \E w \in Workers : pc[w] = "putparams" /\ err[w] /\ Len(ran[w]) >= 2

\* C3: within one lifecycle Response.Written, once true, stays true until
\* the objects are reset for the next request.
C3_WrittenOnce ==
    [][\A w \in Workers :
          (InFlight(w) /\ res[w] # Nil /\ res'[w] = res[w]
           /\ ress[res[w]].Written) => ress'[res[w]].Written]_vars

\* C4: when the matched handler returns no error and nothing has been
\* written, the closure around it leaves the response with status 204 and
\* without Content-Type and Content-Length in the response header.
C4_NoContent ==
    [][\A w \in Workers :
          (/\ pc[w] = "chain" /\ dir[w] = "up" /\ cur[w] >= 1
           /\ Chain[cur[w]] = WrapStep
           /\ ~err[w] /\ ~ress[res[w]].Written
           /\ cur'[w] = cur[w] - 1)
          => /\ ress'[res[w]].Status = StatusNoContent
             /\ hdr'[w] \cap {"Content-Type", "Content-Length"} = {}]_vars

\* C5: when an error reaches the dispatcher with Written false, the status
\* is at least 400 at the moment the ErrorHandler is called.
C5_ErrorStatus ==
    \A w \in Workers :
        (pc[w] = "errorhandler" /\ ~ress[res[w]].Written)
        => ress[res[w]].Status >= StatusBadRequest

\* C6: no Request and no Response is held by two requests at once, and an
\* object a request holds is not in the pool: it is handed out again only
\* after its holder has put it back, which happens after the chain, the
\* ErrorHandler and the deferred functions.
C6_ExclusiveObjects ==
    /\ \A w1, w2 \in Workers :
          w1 # w2 =>
            /\ req[w1] # Nil => req[w1] # req[w2]
            /\ res[w1] # Nil => res[w1] # res[w2]
    /\ \A w \in Workers :
          /\ req[w] # Nil => req[w] \notin requestPool
          /\ res[w] # Nil => res[w] \notin responsePool
          /\ pc[w] \in {"chain", "errorhandler", "deferred", "putparams"}
             => req[w] # Nil /\ res[w] # Nil

\* A goroutine has drawn a Response an earlier lifecycle left dirty while
\* another request is in its chain.
C6_Witness ==
    \E w1, w2 \in Workers :
        /\ w1 # w2 /\ pc[w1] = "gotres" /\ pc[w2] = "chain"
        /\ ress[res[w1]].Written /\ reqs[req[w1]].res # Nil

\* C7: whatever the previous lifecycle left in the pooled objects, the
\* chain starts with zero route parameters, status 200, the default
\* content length, Written, Minified and Gzipped false and no deferred
\* function.
C7_CleanStart ==
    \A w \in Workers :
        (pc[w] = "chain" /\ cur[w] = 0 /\ dir[w] = "down")
        => /\ reqs[req[w]].params = 0
           /\ reqs[req[w]].routeParamValues = Nil
           /\ ress[res[w]].Status = StatusOK
           /\ ress[res[w]].ContentLength = DefaultContentLength
           /\ ~ress[res[w]].Written
           /\ ~ress[res[w]].Minified /\ ~ress[res[w]].Gzipped
           /\ ress[res[w]].deferredFuncs = <<>>

\* The objects drawn for a request are as a failed earlier lifecycle left
\* them: parameters set, a status other than 200, bytes written, flags set,
\* deferred functions registered.
C7_Witness ==
    \E w \in Workers :
        /\ pc[w] = "gotres"
        /\ reqs[req[w]].params >= 1 /\ reqs[req[w]].routeParamValues # Nil
        /\ ress[res[w]].Status >= StatusBadRequest /\ ress[res[w]].Written
        /\ ress[res[w]].ContentLength > DefaultContentLength
        /\ ress[res[w]].Minified /\ ress[res[w]].deferredFuncs # <<>>

\* The mode the configuration calls for: static-certificate TLS if a
\* certificate and a key file are configured, otherwise automatic-certificate
\* TLS if ACME is enabled and debug mode is off, otherwise plaintext.
ClaimedMode(c) ==
    CASE c.TLSCertFile # "" /\ c.TLSKeyFile # "" -> "static"
      [] ~(c.TLSCertFile # "" /\ c.TLSKeyFile # "") /\ c.ACMEEnabled /\ ~c.DebugMode
           -> "acme"
      [] OTHER -> "plaintext"

\* The modes the primary listener serves.
ActiveModes ==
    {m \in {"plaintext", "static", "acme"} :
        \/ m = "plaintext" /\ primary.kind = "plaintext"
        \/ m = "static" /\ primary.kind = "tls" /\ tlsConfig = "static"
        \/ m = "acme" /\ primary.kind = "tls" /\ tlsConfig = "acme"}

\* C8: once serve() is listening, the primary listener serves exactly one
\* mode, the one the configuration calls for, and a plaintext listener has
\* no certificate callback; serve() never has two modes active.
C8_OneListenerMode ==
    /\ Cardinality(ActiveModes) <= 1
    /\ servePc = "listening" =>
          /\ ActiveModes = {ClaimedMode(cfg)}
          /\ primary.kind = "plaintext" <=> tlsConfig = "none"

C8_Witness ==
    /\ servePc = "listening" /\ ActiveModes = {"acme"}
    /\ cfg.TLSCertFile # "" /\ cfg.TLSKeyFile = ""

\* n is among the names of list, case-insensitively.
NameListed(list, n) == ToLower(n) \in {ToLower(x) : x \in list}

\* C9 as stated: in both TLS modes a handshake whose server name is absent
\* from a non-empty whitelist ends with the connection closed, no
\* certificate returned and the certificate manager not consulted.
C9_Original ==
    (conn.on = "tls" /\ cfg.HostWhitelist # {}
     /\ ~NameListed(cfg.HostWhitelist, conn.sni))
    => /\ conn.out.closed /\ conn.out.cert = "none" /\ ~conn.out.manager

\* C9, amended: with debug mode off, in both TLS modes a handshake whose
\* server name is absent from a non-empty whitelist ends with the connection
\* closed, no certificate returned and the certificate manager not consulted.
C9_RejectedHandshake ==
    (conn.on = "tls" /\ ~cfg.DebugMode /\ cfg.HostWhitelist # {}
     /\ ~NameListed(cfg.HostWhitelist, conn.sni))
    => /\ conn.out.closed /\ conn.out.cert = "none" /\ ~conn.out.manager

C9_Witness ==
    /\ conn.on = "tls" /\ tlsConfig = "acme" /\ conn.sni = "other.org"
    /\ cfg.HostWhitelist = {"EXAMPLE.COM", "10.0.0.1"}
    /\ conn.out.closed

\* C10: on the plaintext-only listener and on the listener on :80, with
\* debug mode off, a request whose Host (without its port) is not in a
\* non-empty whitelist is forwarded to no handler, the challenge responder
\* included: the connection is hijacked and closed.
C10_PlaintextGate ==
    (conn.on \in {"plaintext", "secondary"} /\ ~cfg.DebugMode
     /\ cfg.HostWhitelist # {}
     /\ ~NameListed(cfg.HostWhitelist, conn.host.name))
    => conn.out.to = "none" /\ conn.out.closed

C10_Witness ==
    /\ conn.on = "secondary" /\ secondary = "acme+h2c" /\ conn.challenge
    /\ conn.host = [name |-> "other.org", port |-> "8080"]
    /\ cfg.HostWhitelist = {"example.com"}
    /\ conn.out.closed

\* A content type that is set and has no minifier.
Unregistered(ct) ==
    ct # "" /\ ct \notin Registered \cup {"image/jpeg", "image/png"}

\* C11: Minify with a MIME type that has no registered minifier returns the
\* bytes it was given and no error, and a blob write with such a content
\* type hands exactly the input bytes on.
C11_MinifyPassthrough ==
    (blob.pc \in {"minified", "written"} /\ Unregistered(blob.ct))
    => blob.out = blob.b /\ blob.err = ""

\* The one handler in flight when shutdown was called.
TheHandler == CHOOSE c \in shut.inflight : TRUE

CommitStep(w) ==
    /\ res[w] # Nil /\ res'[w] = res[w]
    /\ pc[w] = "chain"
    /\ ~ress[res[w]].Written /\ ress'[res[w]].Written
    /\ ~(\E o \in Outcomes, s \in UpgradeErrorStatuses : WebSocket(w, o, s))

\* C13: a commit sends the recorded Response.Status when the status passed
\* in is 200 and the recorded status differs, otherwise the status passed
\* in; after a commit Response.Status is the status sent; a commit call on a
\* written response changes neither.
C13_CommitStatus ==
    [][\A w \in Workers :
          /\ CommitStep(w) => ress'[res[w]].Status = sent'[w]
          /\ \A s \in StatusInputs :
                WriteHeader(w, s) =>
                    IF ress[res[w]].Written
                    THEN /\ sent'[w] = sent[w]
                         /\ ress'[res[w]].Status = ress[res[w]].Status
                    ELSE sent'[w] = IF s = StatusOK /\ ress[res[w]].Status # StatusOK
                                    THEN ress[res[w]].Status ELSE s]_vars

\* C14: once body bytes have been written in a lifecycle,
\* Response.ContentLength is the number of bytes written.
C14_ContentLength ==
    \A w \in Workers :
        (res[w] # Nil /\ wrote[w] > 0) => ress[res[w]].ContentLength = wrote[w]

\* C15: Response.WebSocket sets status 101 and Written before the handoff,
\* so both hold on return when the upgrade succeeds and when it fails after
\* the handoff; when the upgrade is refused before anything was committed,
\* Written is false on return.
C15_WebSocket ==
    [][\A w \in Workers, s \in UpgradeErrorStatuses :
          /\ (WebSocket(w, "ok", s) \/ WebSocket(w, "failed", s))
             => /\ ress'[res[w]].Written
                /\ ress'[res[w]].Status = StatusSwitchingProtocols
          /\ (WebSocket(w, "rejected", s) /\ sent[w] = 0)
             => ~ress'[res[w]].Written]_vars

\* A refused upgrade has returned with nothing committed.
C15_Witness ==
    \E w \in Workers :
        /\ InStage(w) /\ ops[w] >= 1 /\ sent[w] = 0
        /\ ress[res[w]].Status \in UpgradeErrorStatuses
        /\ ~ress[res[w]].Written

WholeRecords ==
    \A i \in 1 .. Len(output) :
        IF output[i].part = "record"
        THEN \/ i = Len(output) /\ lpc[output[i].by] = "newline"
             \/ /\ i < Len(output)
                /\ output[i + 1] = [output[i] EXCEPT !.part = "newline"]
        ELSE i > 1 /\ output[i - 1] = [output[i] EXCEPT !.part = "record"]

InSection(g) == lpc[g] \in {"build", "write", "newline", "unlock"}

\* C17: a record is built and written by the goroutine that holds the
\* mutex, so at most one record is being written at a time and the records
\* in the output are never interleaved; a call below the lowest level with
\* debug mode off writes nothing and does not take the mutex.
C17_LoggerMutex ==
    /\ \A g \in Goroutines : InSection(g) => mutex = g
    /\ Cardinality({g \in Goroutines : InSection(g)}) <= 1
    /\ WholeRecords
    /\ \A g \in Goroutines :
          (lpc[g] # "idle" \/ mutex = g) => ~Filtered(loggerCfg, ll[g])
    /\ \A i \in 1 .. Len(output) : ~Filtered(loggerCfg, output[i].lvl)

\* One goroutine is between the record and its newline while another
\* waits for the mutex, after a record of a third call went out.
C17_Witness ==
    \E g1, g2 \in Goroutines :
        /\ lpc[g1] = "newline" /\ lpc[g2] = "lock"
        /\ Len(output) >= 3
        /\ loggerCfg.LoggerLowestLevel > LoggerLevelDebug /\ ~loggerCfg.DebugMode

\* C18: when the group of the gases and the matched handler has returned no
\* error, the response is written: it was forced to no content and committed
\* if nothing had written it.
C18_GroupFinalized ==
    \A w \in Workers :
        (/\ pc[w] = "chain" /\ dir[w] = "up" /\ cur[w] >= 1
         /\ Chain[cur[w]] = RouteStep /\ ~err[w])
        => ress[res[w]].Written

\* C19: when the timeout of shutdown elapses with connections still active,
\* they are dropped at that point, so that no connection whose handler has
\* yet to complete is left active; with timeout <= 0 shutdown does not
\* return while a connection is active.
C19_ForcedDrop ==
    shut.pc = "returned"
    => /\ (shut.timeout > 0 /\ shut.result # "nil" /\ now = shut.at)
          => \A c \in Conns : ~(Active(c) /\ conns[c].finish > now)
       /\ shut.timeout <= 0 => \A c \in shut.inflight : shut.finish[c] <= shut.at


\* What C20 expects of an allowed request: a hostname is redirected with
\* 301 to https://host[:port]<RequestURI>, the port appended unless it is the
\* default TLS port; an IP literal goes to the h2c handler.
RedirectExpected ==
    IF conn.host.name \notin IPLiterals
    THEN /\ conn.out.to = "redirect"
         /\ conn.out.status = StatusMovedPermanently
         /\ conn.out.target =
              [scheme |-> "https", name |-> conn.host.name,
               port |-> IF cfg.Port \in {"443", "https"} THEN "" ELSE cfg.Port,
               uri |-> conn.uri]
    ELSE conn.out.to = "h2c"

Handling(w) == pc[w] \in {"chain", "errorhandler", "deferred", "putparams"}

\* The route-parameter storage of the request of goroutine w (Nil: none).
Storage(w) == reqs[req[w]].routeParamValues

C22_BackReferences ==
    \A w \in Workers :
        (Handling(w) \/ pc[w] = "putreq")
        => reqs[req[w]].res = res[w] /\ ress[res[w]].req = req[w]

\* A request is being handled while another goroutine has drawn, and not
\* yet reset, the Response that was the partner of its Request in an
\* earlier lifecycle.
C22_Witness ==
    \E w, v \in Workers :
        /\ w # v /\ pc[w] = "chain" /\ pc[v] = "gotres"
        /\ ress[res[v]].req = req[w]
        /\ reqs[req[v]].res = res[w]

\* The port a redirect target or a listener address names: none and the
\* service name "https" stand for 443.
PortOf(p) == IF p \in {"", "https"} THEN "443" ELSE p

\* C23: whenever the listener on :80 redirects, the port of the https URL
\* is the port the TLS listener is bound to.
C23_RedirectPort ==
    (conn.on = "secondary" /\ conn.out.to = "redirect")
    => PortOf(conn.out.target.port) = PortOf(primary.port)

====
